---- MODULE Spec2Model ----
(***************************************************************************)
(* Model of the Homebox integration: the authentication client             *)
(* (src/auth_client.py) and the polling coordinator (src/__init__.py).     *)
(* Time is counted in minutes.  Python's None is the string "None" for a   *)
(* token and the record Absent for a timestamp.                            *)
(***************************************************************************)
EXTENDS Integers, Sequences, FiniteSets, TLC

\* ------------------------------------------------------------------ bounds
MaxTicks == 2        \* clock advances per behaviour
MaxDepth == 3        \* nested api_request frames the interpreter allows
MaxLen == 2          \* length of the lists a response carries
MaxFields == 3       \* fields of a JSON object
MaxEntries == 3      \* configured inventory servers
MaxSetups == 3       \* setups of one configuration entry

\* --------------------------------------------------------- program constants
SafetyMarginMinutes == 5
SyncIntervalMinutes == 1440
MinScanInterval == 1
MaxScanInterval == 1440

\* ------------------------------------------------------------------- values
Tokens == {"t1", "t2"}
NoToken == "None"
TokenFields == {"absent", ""} \cup Tokens

Absent == [kind |-> "none", at |-> 0]
Naive(t) == [kind |-> "naive", at |-> t]
Aware(t) == [kind |-> "aware", at |-> t]

\* refresh intervals tried: both ends of the permitted range, the safety margin
\* and its neighbour
RefreshIntervals == {MinScanInterval, SafetyMarginMinutes, SafetyMarginMinutes + 1, MaxScanInterval}
TickSet == {SafetyMarginMinutes, SyncIntervalMinutes}
ExpiryOffsets == {0, SafetyMarginMinutes + 1}

\* the `expires` field of a login response: missing, unparsable, or an ISO
\* timestamp (without or with an offset) lying `at` minutes after the response
NoField == [kind |-> "absent", at |-> 0]
ExpFields == {NoField, [kind |-> "bad", at |-> 0]}
               \cup {[kind |-> k, at |-> d] : k \in {"naive", "aware"}, d \in ExpiryOffsets}
NoData == [kind |-> "absent", token |-> "absent", expires |-> NoField]
DataFields == {NoData, [kind |-> "null", token |-> "absent", expires |-> NoField]}
               \cup [kind : {"obj"}, token : TokenFields, expires : ExpFields]
LoginBodies == [token : TokenFields, expires : ExpFields, data : DataFields]
EmptyBody == [token |-> "absent", expires |-> NoField, data |-> NoData]
LoginFailures == {"transport", "http_status", "bad_json", "not_object"}
LoginResponses == {[fail |-> f, body |-> EmptyBody] : f \in LoginFailures}
                    \cup {[fail |-> "none", body |-> b] : b \in LoginBodies}

\* the login responses the request machinery is run against: one of each kind
\* of outcome (failure, token at the top level or under data, each form of expiry)
Body(tok, exp, dat) == [token |-> tok, expires |-> exp, data |-> dat]
Exp(k, d) == [kind |-> k, at |-> d]
ServerLogins ==
    {[fail |-> "transport", body |-> EmptyBody]}
    \cup {[fail |-> "none", body |-> b] : b \in
          { Body("t1", NoField, NoData),
            Body("absent", NoField, [kind |-> "obj", token |-> "t2", expires |-> NoField]),
            Body("", NoField, NoData),
            Body("t2", Exp("naive", 0), NoData),
            Body("t1", Exp("naive", SafetyMarginMinutes + 1), NoData),
            Body("t2", Exp("aware", SafetyMarginMinutes + 1), NoData),
            Body("t1", Exp("bad", 0), NoData) }}

\* JSON values: a list of strings, a scalar, or an object whose fields (in
\* order) each hold a list or a scalar
JList(L) == [t |-> "list", items |-> L, fields |-> <<>>]
JScalar == [t |-> "scalar", items |-> <<>>, fields |-> <<>>]
JObj(fs) == [t |-> "obj", items |-> <<>>, fields |-> fs]
ListField(k, L) == [k |-> k, isList |-> TRUE, items |-> L]
ScalarField(k) == [k |-> k, isList |-> FALSE, items |-> <<>>]
NoBody == JScalar
\* the envelopes a server may put the list L in
Envelopes(L) ==
    { JList(L),
      JObj(<<ListField("items", L)>>),
      JObj(<<ListField("data", L)>>),
      JObj(<<ScalarField("total"), ListField("results", L)>>),
      JObj(<<ScalarField("unexpected")>>) }

\* the inventory and the host's areas
ServerItems == <<"i1", "i2">>
AreaChoices == {{"A", "B"}}
ServerLocationChoices == {{"B"}}
NoSnapshot == [items |-> <<>>, locations |-> <<>>, last_update |-> Absent]
NoFetch == [items |-> "none", locations |-> "none"]
NoRun == [before |-> {}, fetch |-> "none", createFailed |-> FALSE,
          raised |-> "none", out |-> "none"]
NoParse == [fn |-> "none", r |-> "none", shape |-> "none", L |-> <<>>,
            raised |-> "none", out |-> <<>>, b |-> NoBody]
\* a POST to the webhook endpoint: whether the id in the path is the registered
\* one; the body (bytes that are no text in the request's charset, text that
\* is no JSON, a JSON value that is no object, or a JSON object); the object's
\* `type`; its `data` (missing, null, a JSON value that is no object, or an
\* object) and the `id` within it; how many coordinators are registered
Coordinators == <<"c1", "c2">>
HookTypes == {"item.updated", "item.created", "item.deleted", "other", "absent"}
HookPosts == [idOk : BOOLEAN,
              body : {"undecodable", "not_json", "non_object", "object"},
              type : HookTypes,
              data : {"absent", "null", "non_object", "object"},
              id : {"absent", "", "i1", "i2"},
              coordinators : {0, Len(Coordinators)}]
NoPost == [idOk |-> FALSE, body |-> "object", type |-> "absent", data |-> "absent",
           id |-> "absent", coordinators |-> 0]
NoHook == [req |-> NoPost, status |-> "none", sent |-> <<>>, refreshed |-> FALSE,
           did |-> <<>>]
NoMove == [pc |-> "idle", attempts |-> <<>>, ret |-> "none"]
\* the notifiers the server holds, and a best-effort call not yet made
ServerWebhooks == <<"w1">>
BestEffortOps == {"create_location", "register_webhook", "list_webhooks"}
NoBest == [fn |-> "none", done |-> FALSE, r |-> "none", raised |-> "none",
           ret |-> "none", out |-> <<>>]
NoGate == [check |-> "none", passed |-> FALSE, t |-> 0, prev |-> Absent, sync |-> FALSE]

\* an item as the server sends it and as a sensor holds it: the name in its
\* nested `location` object ("none": no such object) and its `location_id`
LocationIds == {"l1", "l2"}
LocationName(id) == IF id = "l1" THEN "A" ELSE "B"
ItemRecords == [location : {"none", "A", "B"}, location_id : {"none"} \cup LocationIds]
NoItem == [location |-> "none", location_id |-> "none"]
NoSensor == [item |-> NoItem, last |-> "none"]
\* coordinator.data: nothing yet, or the item and the ids of the locations of
\* the latest snapshot
NoCoordinatorData == [present |-> FALSE, item |-> NoItem, locations |-> {}]
Snapshots == [present : {TRUE}, item : ItemRecords, locations : SUBSET LocationIds]
\* the payload of an item update: for each key, "keep" when the key is missing
UpdatePayloads == [location : {"keep", "A", "B"}, location_id : {"keep"} \cup LocationIds]
                    \ {[location |-> "keep", location_id |-> "keep"]}
\* the label of a configuration entry ("none": no label key in its data)
Labels == {"none", "x", "y"}
\* the ids secrets.token_hex may give; what entry.data holds under
\* CONF_WEBHOOK_ID is "absent" (no key), "None" or an id
WebhookIds == {"h1", "h2"}
NoSetup == [done |-> FALSE, id |-> "None", registered |-> FALSE]

\* what the target endpoint can answer
TargetStatuses == {"transport", "401", "http_error", "ok_json", "ok_text", "ok_badjson"}

VARIABLES
    refresh_interval,   \* HomeboxAuthClient.refresh_interval
    auth_token,         \* HomeboxAuthClient.auth_token
    token_expiry,       \* HomeboxAuthClient.token_expiry
    last_refresh,       \* HomeboxAuthClient.last_refresh
    authenticated,      \* HomeboxAuthClient.authenticated
    now,                \* datetime.now()
    ticks,              \* clock advances so far
    pc,                 \* position of the api_request in flight
    depth,              \* nesting of the api_request in flight
    log,                \* what the request in flight did, in order
    result,             \* outcome of the request in flight
    op,                 \* the caller of the request in flight
    body,               \* the JSON value the request in flight returned
    call,               \* the direct authenticate()/ensure_token_valid() call returning
    cpc,                \* position of the refresh pass (_async_update_data)
    last_sync_time,     \* HomeboxDataUpdateCoordinator.last_sync_time
    current_time,       \* current_time of the pass in flight
    gate,               \* what the daily gate of the latest pass saw and decided
    syncs,              \* the current_time of each pass that ran the location sync
    passResult,         \* how the latest pass ended
    snapshot,           \* the data the pass in flight, or the latest one, returned
    fetched,            \* whether that pass's requests for items, locations succeeded
    areas,              \* the host's area names
    srvLocs,            \* the location names the inventory server holds
    spc,                \* position of sync_locations
    todo,               \* missing_locations not yet created
    creating,           \* the location name being created
    created,            \* the create_location calls of the latest sync
    srun,               \* what the latest run of sync_locations met
    prevRun,            \* how the latest finished run of sync_locations went
    move,               \* the update_item_location call: position, attempts, value returned
    parsed,             \* the latest get_items/get_locations applied to a response
    hook,               \* the latest POST to the webhook endpoint and its outcome
    best,               \* the latest create_location/register_webhook/list_webhooks call
    sensor,             \* HomeboxItemSensor._item and what last wrote the entity's state
    coordinator_data,   \* coordinator.data as the sensor reads it
    entries,            \* the label of each configuration entry, in order
    label_used,         \* the label of each coordinator's latest items fetch
    entry_webhook_id,   \* entry.data[CONF_WEBHOOK_ID]
    views,              \* the webhook ids the registered views answer to
    notifiers,          \* the webhook ids in the URLs registered with the server
    setups,             \* setups of the entry so far
    last_setup          \* the id and the registration of the latest setup

vars == <<refresh_interval, auth_token, token_expiry, last_refresh, authenticated,
          now, ticks, pc, depth, log, result, op, body, call,
          cpc, last_sync_time, current_time, gate, syncs, passResult, snapshot,
          fetched, areas, srvLocs, spc, todo, creating, created, srun, prevRun,
          move, parsed, hook, best,
          sensor, coordinator_data, entries, label_used,
          entry_webhook_id, views, notifiers, setups, last_setup>>

Session == [auth_token |-> auth_token, token_expiry |-> token_expiry,
            last_refresh |-> last_refresh, authenticated |-> authenticated]

SetSession(s) ==
    /\ auth_token' = s.auth_token
    /\ token_expiry' = s.token_expiry
    /\ last_refresh' = s.last_refresh
    /\ authenticated' = s.authenticated

BoolStr(b) == IF b THEN "true" ELSE "false"

\* ------------------------------------------------------------ authenticate
\* (mutant) the token under data is preferred to the top-level one
ExtractTokenNestedFirst(b) ==
    IF b.data.kind = "obj" /\ b.data.token # "absent"
    THEN [found |-> TRUE, raised |-> FALSE, token |-> b.data.token]
    ELSE IF b.token # "absent"
    THEN [found |-> TRUE, raised |-> FALSE, token |-> b.token]
    ELSE [found |-> FALSE, raised |-> b.data.kind = "null", token |-> "absent"]

\* lines 82-91: the token is read from the top level, else from `data`;
\* `"token" in auth_data["data"]` raises when data is null
ExtractToken(b) ==
    IF b.token # "absent"
    THEN [found |-> TRUE, raised |-> FALSE, token |-> b.token]
    ELSE IF b.data.kind = "null"
    THEN [found |-> FALSE, raised |-> TRUE, token |-> "absent"]
    ELSE IF b.data.kind = "obj" /\ b.data.token # "absent"
    THEN [found |-> TRUE, raised |-> FALSE, token |-> b.data.token]
    ELSE [found |-> FALSE, raised |-> FALSE, token |-> "absent"]

\* datetime.fromisoformat(...): raises on an unparsable string, gives an
\* offset-aware datetime when the string carries an offset or a Z
ParseExpiry(f, t) ==
    IF f.kind = "bad" THEN [raised |-> TRUE, expiry |-> Absent]
    ELSE IF f.kind = "aware" THEN [raised |-> FALSE, expiry |-> Aware(t + f.at)]
    ELSE [raised |-> FALSE, expiry |-> Naive(t + f.at)]

\* lines 98-105
ExtractExpiry(b, t, ri) ==
    IF b.expires.kind # "absent" THEN ParseExpiry(b.expires, t)
    ELSE IF b.data.kind = "null" THEN [raised |-> TRUE, expiry |-> Absent]
    ELSE IF b.data.kind = "obj" /\ b.data.expires.kind # "absent"
    THEN ParseExpiry(b.data.expires, t)
    ELSE [raised |-> FALSE, expiry |-> Naive(t + ri)]

\* (mutant) a failed login leaves the authenticated flag as it was
AuthFailKeepsFlag(s) == [sess |-> s, ret |-> FALSE]

\* lines 90-91, 95-96, 115-116, 119-120: every failure path
AuthFail(s) == [sess |-> [s EXCEPT !.authenticated = FALSE], ret |-> FALSE]

\* (mutant) the check of lines 93-96 for an empty token is missing
authenticateAnyToken(s, resp, t, ri) ==
    IF resp.fail # "none" THEN AuthFail(s)
    ELSE LET tk == ExtractToken(resp.body) IN
         IF tk.raised \/ ~tk.found THEN AuthFail(s)
         ELSE LET s1 == [s EXCEPT !.auth_token = tk.token]
                  ex == ExtractExpiry(resp.body, t, ri) IN
              IF ex.raised THEN AuthFail(s1)
              ELSE [sess |-> [auth_token |-> tk.token,
                              token_expiry |-> ex.expiry,
                              last_refresh |-> Naive(t),
                              authenticated |-> TRUE],
                    ret |-> TRUE]

\* authenticate(): the session after the login response `resp` arrived at
\* time t, and the value returned
authenticate(s, resp, t, ri) ==
    IF resp.fail # "none" THEN AuthFail(s)
    ELSE LET tk == ExtractToken(resp.body) IN
         IF tk.raised \/ ~tk.found THEN AuthFail(s)
         ELSE LET s1 == [s EXCEPT !.auth_token = tk.token] IN
              IF tk.token = "" THEN AuthFail(s1)
              ELSE LET ex == ExtractExpiry(resp.body, t, ri) IN
                   IF ex.raised THEN AuthFail(s1)
                   ELSE [sess |-> [auth_token |-> tk.token,
                                   token_expiry |-> ex.expiry,
                                   last_refresh |-> Naive(t),
                                   authenticated |-> TRUE],
                         ret |-> TRUE]

\* ------------------------------------------------------ ensure_token_valid
Falsy(tok) == tok = NoToken \/ tok = ""

\* lines 125-130, evaluated left to right: "raise" when datetime.now() is
\* compared with an offset-aware expiry, else whether a login is needed
TokenCheck(s, t) ==
    IF ~s.authenticated \/ Falsy(s.auth_token) \/ s.token_expiry.kind = "none"
    THEN "login"
    ELSE IF s.token_expiry.kind = "aware" THEN "raise"
    ELSE IF t >= s.token_expiry.at - SafetyMarginMinutes THEN "login"
    ELSE "valid"

\* (mutant) ensure_token_valid logs in whatever the session holds
ensure_token_valid_AlwaysLogin(s, resp, t, ri) ==
    LET a == authenticate(s, resp, t, ri) IN
    [sess |-> a.sess, ret |-> IF a.ret THEN "true" ELSE "false", logins |-> 1,
     inner |-> IF a.ret THEN "true" ELSE "false"]

\* ensure_token_valid(): the session afterwards, the value returned ("true",
\* "false", or "TypeError" when it raises) and the login calls made
ensure_token_valid(s, resp, t, ri) ==
    LET c == TokenCheck(s, t) IN
    IF c = "valid" THEN [sess |-> s, ret |-> "true", logins |-> 0, inner |-> "none"]
    ELSE IF c = "raise" THEN [sess |-> s, ret |-> "TypeError", logins |-> 0, inner |-> "none"]
    ELSE LET a == authenticate(s, resp, t, ri) IN
         [sess |-> a.sess, ret |-> IF a.ret THEN "true" ELSE "false", logins |-> 1,
          inner |-> IF a.ret THEN "true" ELSE "false"]

NoResp == [fail |-> "none", body |-> EmptyBody]
NoSession == [auth_token |-> NoToken, token_expiry |-> Absent,
              last_refresh |-> Absent, authenticated |-> FALSE]
NoCall == [op |-> "none", pre |-> NoSession, resp |-> NoResp,
           ret |-> "none", logins |-> 0, inner |-> "none"]

\* __init__, lines 40-47
Init ==
    /\ refresh_interval \in RefreshIntervals
    /\ auth_token = NoToken
    /\ token_expiry = Absent
    /\ last_refresh = Absent
    /\ authenticated = FALSE
    /\ now = 0
    /\ ticks = 0
    /\ pc = "idle"
    /\ depth = 0
    /\ log = <<>>
    /\ result = "none"
    /\ op = "none"
    /\ body = NoBody
    /\ call = NoCall
    /\ cpc = "idle"
    /\ last_sync_time = Absent
    /\ current_time = Absent
    /\ gate = NoGate
    /\ syncs = <<>>
    /\ passResult = "none"
    /\ snapshot = NoSnapshot
    /\ fetched = NoFetch
    /\ areas \in AreaChoices
    /\ srvLocs \in ServerLocationChoices
    /\ spc = "idle"
    /\ todo = {}
    /\ creating = ""
    /\ created = <<>>
    /\ srun = NoRun
    /\ prevRun = "none"
    /\ move = NoMove
    /\ parsed = NoParse
    /\ hook = NoHook
    /\ best = NoBest
    /\ sensor = NoSensor
    /\ coordinator_data = NoCoordinatorData
    /\ entries = <<>>
    /\ label_used = <<>>
    /\ entry_webhook_id = "absent"
    /\ views = {}
    /\ notifiers = {}
    /\ setups = 0
    /\ last_setup = NoSetup

sideVars == <<move, parsed, hook, best>>
hostVars == <<sensor, coordinator_data, entries, label_used,
              entry_webhook_id, views, notifiers, setups, last_setup>>
sessionVars == <<auth_token, token_expiry, last_refresh, authenticated>>
requestVars == <<pc, depth, log, result, op, body>>
coordVars == <<cpc, last_sync_time, current_time, gate, syncs, passResult, snapshot, fetched>>
syncVars == <<areas, srvLocs, spc, todo, creating, created, srun, prevRun>>

\* the clock advances (not between a direct call and its return)
Tick ==
    /\ ticks < MaxTicks
    /\ call.op = "none"
    /\ cpc = "idle"
    /\ spc = "idle"
    /\ \E d \in TickSet : now' = now + d
    /\ ticks' = ticks + 1
    /\ UNCHANGED <<refresh_interval, hostVars, sideVars, sessionVars, requestVars, call, coordVars, syncVars>>

\* a direct call of authenticate() (setup, test_connection, validate_input),
\* answered by one of the login responses R
AuthenticateWith(R) ==
    /\ pc = "idle"
    /\ call.op = "none"
    /\ \E resp \in R :
         LET a == authenticate(Session, resp, now, refresh_interval) IN
         /\ SetSession(a.sess)
         /\ call' = [op |-> "authenticate", pre |-> Session, resp |-> resp,
                     ret |-> BoolStr(a.ret), logins |-> 1, inner |-> BoolStr(a.ret)]
    /\ UNCHANGED <<refresh_interval, hostVars, sideVars, now, ticks, requestVars, coordVars, syncVars>>

Authenticate == AuthenticateWith(ServerLogins)

\* the same call against the server's logins and two answers without a token:
\* an empty object, and an object whose data is null
AuthenticateOrNoToken ==
    AuthenticateWith(ServerLogins \cup
        {NoResp,
         [fail |-> "none",
          body |-> Body("absent", NoField,
                        [kind |-> "null", token |-> "absent", expires |-> NoField])]})

\* the same call against every shape of login response
AuthenticateAnyShape == AuthenticateWith(LoginResponses)

\* a direct call of ensure_token_valid()
EnsureTokenValid ==
    /\ pc = "idle"
    /\ call.op = "none"
    /\ \E resp \in ServerLogins :
         LET e == ensure_token_valid(Session, resp, now, refresh_interval) IN
         /\ SetSession(e.sess)
         /\ call' = [op |-> "ensure_token_valid", pre |-> Session, resp |-> NoResp,
                     ret |-> e.ret, logins |-> e.logins, inner |-> e.inner]
    /\ UNCHANGED <<refresh_interval, hostVars, sideVars, now, ticks, requestVars, coordVars, syncVars>>

\* authenticate() called by another operation on the same client while a
\* request is in flight: lines 82-108 run without an await between them
ConcurrentLogin ==
    /\ pc \in {"send", "reauth"}
    /\ \E resp \in ServerLogins :
         SetSession(authenticate(Session, resp, now, refresh_interval).sess)
    /\ UNCHANGED <<refresh_interval, hostVars, sideVars, now, ticks, requestVars, call, coordVars, syncVars>>

\* the caller takes the returned value
Return ==
    /\ call.op # "none"
    /\ call' = NoCall
    /\ UNCHANGED <<refresh_interval, hostVars, sideVars, sessionVars, now, ticks, requestVars, coordVars, syncVars>>

\* -------------------------------------------------------------- api_request
Event(ev, d, tok, res) == [ev |-> ev, d |-> d, tok |-> tok, res |-> res]
Errors == {"AuthError", "ApiError", "TypeError"}

\* (mutant) what is raised inside the try block leaves the frame as it is
WrapKeepsKind(exc) == exc

\* lines 210-215: whatever is raised inside the try block leaves the frame as
\* HomeboxApiError
WrapInTry(exc) == "ApiError"

\* the frames 0..d-1 around a frame that raised: each made the nested call
\* inside its own try block (line 196)
RECURSIVE Unwind(_, _)
Unwind(d, exc) ==
    IF d = 0 THEN <<>>
    ELSE LET e == WrapInTry(exc) IN
         <<Event("raise", d - 1, "", e)>> \o Unwind(d - 1, e)

\* the steps of a request are recorded for a request made directly
Recorded(lg) == IF op = "request" THEN lg ELSE <<>>

\* frame d raises exc; the request ends with what frame 0 raises
Raises(d, exc, lg) ==
    LET all == lg \o <<Event("raise", d, "", exc)>> \o Unwind(d, exc) IN
    /\ log' = Recorded(all)
    /\ result' = all[Len(all)].res
    /\ body' = NoBody
    /\ pc' = "done"
    /\ depth' = depth

\* (mutant) the token check's result is not looked at
AfterTokenCheckIgnoresResult(ret, tok) ==
    IF ret = "TypeError" THEN "TypeError"
    ELSE IF Falsy(tok) THEN "AuthError"
    ELSE "proceed"

\* lines 158-167: what api_request does with the token check's outcome
AfterTokenCheck(ret, tok) ==
    IF ret = "TypeError" THEN "TypeError"
    ELSE IF ret = "false" \/ Falsy(tok) THEN "AuthError"
    ELSE "proceed"

\* a caller `who` enters api_request(method, endpoint, ...)
StartRequest(who) ==
    /\ pc' = "ensure"
    /\ op' = who
    /\ depth' = 0
    /\ log' = <<>>
    /\ result' = "none"
    /\ body' = NoBody

\* the caller has taken the outcome
EndRequest ==
    /\ pc' = "idle"
    /\ op' = "none"
    /\ depth' = 0
    /\ log' = <<>>
    /\ result' = "none"
    /\ body' = NoBody

\* a direct call of api_request
ApiStart ==
    /\ pc = "idle"
    /\ call.op = "none"
    /\ cpc = "idle"
    /\ spc = "idle"
    /\ StartRequest("request")
    /\ UNCHANGED <<refresh_interval, hostVars, sideVars, sessionVars, now, ticks, call, coordVars, syncVars>>

\* lines 157-167: the token check, made before the try block
ApiEnsure ==
    /\ pc = "ensure"
    /\ \E resp \in ServerLogins :
         LET e == ensure_token_valid(Session, resp, now, refresh_interval)
             lg == log
                   \o (IF e.logins = 1
                       THEN <<Event("login_ensure", depth, e.sess.auth_token, e.inner)>>
                       ELSE <<>>)
                   \o <<Event("ensure", depth, "", e.ret)>>
             next == AfterTokenCheck(e.ret, e.sess.auth_token)
         IN
         /\ SetSession(e.sess)
         /\ IF next # "proceed" THEN Raises(depth, next, lg)
            ELSE /\ log' = Recorded(lg)
                 /\ pc' = "send"
                 /\ UNCHANGED <<depth, result, body>>
    /\ UNCHANGED <<refresh_interval, hostVars, sideVars, now, ticks, op, call, coordVars, syncVars>>

RECURSIVE Listing(_)
\* the names of a set, listed in some fixed order
Listing(S) ==
    IF S = {} THEN <<>>
    ELSE LET x == CHOOSE y \in S : TRUE IN
         <<x>> \o Listing(S \ {x})

\* the list a GET of the caller's endpoint holds on the server
Payload == IF op = "get_items" THEN ServerItems
           ELSE IF op \in {"get_locations", "sync_get_locations"} THEN Listing(srvLocs)
           ELSE IF op = "list_webhooks" THEN ServerWebhooks
           ELSE <<>>
Bodies == IF op \in {"get_items", "get_locations", "sync_get_locations"}
          THEN Envelopes(Payload)
          ELSE IF op = "list_webhooks"
          THEN Envelopes(Payload) \cup {JObj(<<ScalarField("data")>>)}
          ELSE {NoBody}

\* lines 177-189 and 200-208: the HTTP call to the target endpoint.  A POST
\* to locations that the server answers with success has added the location.
ApiSend ==
    /\ pc = "send"
    /\ \E st \in TargetStatuses :
         LET lg == log \o <<Event("target", depth, auth_token, st)>> IN
         /\ srvLocs' = IF op = "create_location" /\ st \in {"ok_json", "ok_text", "ok_badjson"}
                       THEN srvLocs \cup {creating} ELSE srvLocs
         /\ CASE st = "401" ->
                   /\ log' = Recorded(lg)
                   /\ pc' = "reauth"
                   /\ UNCHANGED <<depth, result, body>>
              [] st = "ok_json" ->
                   /\ log' = Recorded(lg)
                   /\ result' = "json"
                   /\ body' \in Bodies
                   /\ pc' = "done"
                   /\ UNCHANGED depth
              [] st = "ok_text" ->
                   /\ log' = Recorded(lg)
                   /\ result' = "text"
                   /\ body' = NoBody
                   /\ pc' = "done"
                   /\ UNCHANGED depth
              [] st = "transport" -> Raises(depth, WrapInTry("ClientError"), lg)
              [] st = "http_error" -> Raises(depth, WrapInTry("ClientResponseError"), lg)
              [] st = "ok_badjson" -> Raises(depth, WrapInTry("JSONDecodeError"), lg)
    /\ UNCHANGED <<refresh_interval, hostVars, sideVars, sessionVars, now, ticks, op, call, coordVars,
                   areas, spc, todo, creating, created, srun, prevRun>>

\* lines 190-198: the answer was 401
ApiReauth ==
    /\ pc = "reauth"
    /\ \E resp \in ServerLogins :
         LET a == authenticate(Session, resp, now, refresh_interval)
             lg == log \o <<Event("login_reauth", depth, a.sess.auth_token, BoolStr(a.ret))>>
         IN
         /\ SetSession(a.sess)
         /\ IF ~a.ret THEN Raises(depth, WrapInTry("AuthError"), lg)
            ELSE IF depth + 1 >= MaxDepth THEN Raises(depth, WrapInTry("RecursionError"), lg)
            ELSE /\ log' = Recorded(lg)
                 /\ depth' = depth + 1
                 /\ pc' = "ensure"
                 /\ UNCHANGED <<result, body>>
    /\ UNCHANGED <<refresh_interval, hostVars, sideVars, now, ticks, op, call, coordVars, syncVars>>

\* the direct caller takes the outcome
ApiDone ==
    /\ pc = "done"
    /\ op = "request"
    /\ EndRequest
    /\ UNCHANGED <<refresh_interval, hostVars, sideVars, sessionVars, now, ticks, call, coordVars, syncVars>>

\* ------------------------------------------------------- domain operations
IsError(r) == r \in Errors

RECURSIVE FirstList(_)
\* lines 237-240, 299-302: the first list-valued field, in field order
FirstList(fs) ==
    IF fs = <<>> THEN <<>>
    ELSE IF Head(fs).isList THEN Head(fs).items
    ELSE FirstList(Tail(fs))

HasListField(fs, k) == \E i \in 1..Len(fs) : fs[i].k = k /\ fs[i].isList
ListAt(fs, k) == fs[CHOOSE i \in 1..Len(fs) : fs[i].k = k /\ fs[i].isList].items

\* ------------------------------------- get_items, get_locations on a response
ItemNames == {"i1", "i2"}
Lists == UNION {[1..n -> ItemNames] : n \in 0..MaxLen}

\* the shapes of a JSON response carrying the list L
Shapes == {"bare", "items", "data", "results", "unexpected", "scalar"}
ShapeBody(shape, L) ==
    CASE shape = "bare" -> JList(L)
      [] shape = "items" -> JObj(<<ListField("items", L)>>)
      [] shape = "data" -> JObj(<<ListField("data", L)>>)
      [] shape = "results" -> JObj(<<ScalarField("total"), ListField("results", L)>>)
      [] shape = "unexpected" -> JObj(<<ScalarField("unexpected")>>)
      [] shape = "scalar" -> JScalar

\* (mutant) the handler catches HomeboxApiError only
UncaughtUnlessApiError(exc) == IF exc \in Errors \ {"ApiError"} THEN exc ELSE "none"

\* lines 247-249, 309-311: `except Exception` lets nothing api_request raised
\* leave the function
Uncaught(exc) == "none"

\* (mutant) the first list-valued field is taken, `data` having no priority
get_locations_FirstListOnly(r, b) ==
    IF IsError(r) \/ r = "text" THEN <<>>
    ELSE IF b.t = "list" THEN b.items
    ELSE IF b.t = "obj" THEN FirstList(b.fields)
    ELSE <<>>

\* (mutant) only the "items" field of an object is looked at
get_items_ItemsFieldOnly(r, b) ==
    IF IsError(r) \/ r = "text" THEN <<>>
    ELSE IF b.t = "list" THEN b.items
    ELSE IF b.t = "obj" /\ HasListField(b.fields, "items") THEN ListAt(b.fields, "items")
    ELSE <<>>

\* get_locations, lines 223-249: the list returned for the request's outcome
get_locations(r, b) ==
    IF IsError(r) THEN <<>>
    ELSE IF r = "text" THEN <<>>
    ELSE IF b.t = "list" THEN b.items
    ELSE IF b.t = "obj"
    THEN IF HasListField(b.fields, "data") THEN ListAt(b.fields, "data")
         ELSE FirstList(b.fields)
    ELSE <<>>

\* get_items, lines 278-311
get_items(r, b) ==
    IF IsError(r) THEN <<>>
    ELSE IF r = "text" THEN <<>>
    ELSE IF b.t = "list" THEN b.items
    ELSE IF b.t = "obj"
    THEN IF HasListField(b.fields, "items") THEN ListAt(b.fields, "items")
         ELSE IF HasListField(b.fields, "data") THEN ListAt(b.fields, "data")
         ELSE FirstList(b.fields)
    ELSE <<>>

Range(q) == {q[i] : i \in 1..Len(q)}

\* get_items applied to what api_request gave: a failure, a text, or a JSON
\* value of some shape carrying the list L
ParseItems ==
    /\ \E r \in Errors \cup {"text", "json"}, shape \in Shapes, L \in Lists :
         LET b == IF r = "json" THEN ShapeBody(shape, L) ELSE NoBody IN
         parsed' = [fn |-> "get_items", r |-> r,
                    shape |-> IF r = "json" THEN shape ELSE "none",
                    L |-> IF r = "json" /\ shape \notin {"unexpected", "scalar"} THEN L ELSE <<>>,
                    raised |-> Uncaught(r), out |-> get_items(r, b), b |-> b]
    /\ UNCHANGED <<refresh_interval, hostVars, move, hook, best, sessionVars, now, ticks, requestVars, call,
                   coordVars, syncVars>>

\* get_locations applied likewise
ParseLocations ==
    /\ \E r \in Errors \cup {"text", "json"}, shape \in Shapes, L \in Lists :
         LET b == IF r = "json" THEN ShapeBody(shape, L) ELSE NoBody IN
         parsed' = [fn |-> "get_locations", r |-> r,
                    shape |-> IF r = "json" THEN shape ELSE "none",
                    L |-> IF r = "json" /\ shape \notin {"unexpected", "scalar"} THEN L ELSE <<>>,
                    raised |-> Uncaught(r), out |-> get_locations(r, b), b |-> b]
    /\ UNCHANGED <<refresh_interval, hostVars, move, hook, best, sessionVars, now, ticks, requestVars, call,
                   coordVars, syncVars>>
\* JSON objects of up to MaxFields fields named `items`, `data` or `results`
\* in any order, each a scalar or one of two lists
FieldNames == {"items", "data", "results"}
FieldLists == {<<"i1">>, <<"i2">>}
FieldValues == {ScalarField(k) : k \in FieldNames}
                 \cup {ListField(k, L) : k \in FieldNames, L \in FieldLists}
Objects ==
    {fs \in UNION {[1..n -> FieldValues] : n \in 0..MaxFields} :
        \A i, j \in 1..Len(fs) : i # j => fs[i].k # fs[j].k}

\* get_items applied to a JSON object with several fields
NormalizeItems ==
    /\ \E fs \in Objects :
         parsed' = [fn |-> "get_items", r |-> "json", shape |-> "object", L |-> <<>>,
                    raised |-> Uncaught("json"), out |-> get_items("json", JObj(fs)),
                    b |-> JObj(fs)]
    /\ UNCHANGED <<refresh_interval, hostVars, move, hook, best, sessionVars, now, ticks, requestVars, call,
                   coordVars, syncVars>>

\* get_locations applied likewise
NormalizeLocations ==
    /\ \E fs \in Objects :
         parsed' = [fn |-> "get_locations", r |-> "json", shape |-> "object", L |-> <<>>,
                    raised |-> Uncaught("json"), out |-> get_locations("json", JObj(fs)),
                    b |-> JObj(fs)]
    /\ UNCHANGED <<refresh_interval, hostVars, move, hook, best, sessionVars, now, ticks, requestVars, call,
                   coordVars, syncVars>>

\* ------------------ create_location, register_webhook, list_webhooks
\* (mutant) create_location answers True whatever the request did
create_location_AlwaysTrue(r) == "true"

\* create_location, lines 260-267: the value returned for the request's outcome
create_location(r) == IF IsError(r) THEN "false" ELSE "true"

\* register_webhook, lines 358-370
register_webhook(r) == IF IsError(r) THEN "false" ELSE "true"

HasField(fs, k) == \E i \in 1..Len(fs) : fs[i].k = k

\* list_webhooks, lines 378-396: a list as it is, the list under `data`,
\* and the empty list for everything else
list_webhooks(r, b) ==
    IF IsError(r) THEN <<>>
    ELSE IF r = "text" THEN <<>>
    ELSE IF b.t = "list" THEN b.items
    ELSE IF b.t = "obj" /\ HasField(b.fields, "data")
    THEN IF HasListField(b.fields, "data") THEN ListAt(b.fields, "data") ELSE <<>>
    ELSE <<>>

\* a direct call of one of the three operations (create_location with one of
\* the host's area names): lines 262, 365, 379
BestEffortStart ==
    /\ pc = "idle"
    /\ call.op = "none"
    /\ cpc = "idle"
    /\ spc = "idle"
    /\ move.pc \in {"idle", "returned"}
    /\ \E fn \in BestEffortOps :
         /\ best' = [NoBest EXCEPT !.fn = fn]
         /\ StartRequest(fn)
         /\ IF fn = "create_location" THEN creating' \in areas ELSE creating' = creating
    /\ UNCHANGED <<refresh_interval, hostVars, move, parsed, hook, sessionVars, now, ticks, call,
                   coordVars, areas, srvLocs, spc, todo, created, srun, prevRun>>

\* the request has ended: lines 263-267, 366-370, 380-396
BestEffortDone ==
    /\ pc = "done"
    /\ op \in BestEffortOps
    /\ spc = "idle"
    /\ best.fn = op
    /\ ~best.done
    /\ best' = [fn |-> op, done |-> TRUE, r |-> result, raised |-> Uncaught(result),
                ret |-> IF op = "create_location" THEN create_location(result)
                        ELSE IF op = "register_webhook" THEN register_webhook(result)
                        ELSE "none",
                out |-> IF op = "list_webhooks" THEN list_webhooks(result, body) ELSE <<>>]
    /\ creating' = ""
    /\ EndRequest
    /\ UNCHANGED <<refresh_interval, hostVars, move, parsed, hook, sessionVars, now, ticks, call,
                   coordVars, areas, srvLocs, spc, todo, created, srun, prevRun>>

\* ----------------------------------------------------- update_item_location
\* (mutant) no failure of the first attempt leads to the second body shape
NeverFallback(exc) == FALSE

\* line 333: the failures of the first attempt that lead to the second
FallbackOn(exc) == exc = "ApiError"

\* (mutant) the outer handler lets the failure leave the function
MoveExceptReraises(exc) == exc

\* lines 341-343: whatever the inner handler did not catch, or the second
\* attempt raised, is logged and answered with False
MoveExcept(exc) == "false"

Outcome(r) == IF IsError(r) THEN r ELSE "ok"
Attempt(shape, r) == [shape |-> shape, res |-> Outcome(r)]

\* lines 326-330: the PATCH with {location_id}
MoveStart ==
    /\ move.pc \in {"idle", "returned"}
    /\ cpc = "idle"
    /\ spc = "idle"
    /\ pc = "idle"
    /\ call.op = "none"
    /\ move' = [pc |-> "primary", attempts |-> <<>>, ret |-> "none"]
    /\ StartRequest("patch_location_id")
    /\ UNCHANGED <<refresh_interval, hostVars, parsed, hook, best, sessionVars, now, ticks, call,
                   coordVars, syncVars>>

\* lines 330-337 and 341-343: the first attempt has ended
MovePrimaryDone ==
    /\ move.pc = "primary"
    /\ pc = "done"
    /\ op = "patch_location_id"
    /\ LET tried == Append(move.attempts, Attempt("location_id", result)) IN
       IF ~IsError(result)
       THEN /\ move' = [pc |-> "returned", attempts |-> tried, ret |-> "true"]
            /\ EndRequest
       ELSE IF FallbackOn(result)
       THEN /\ move' = [pc |-> "fallback", attempts |-> tried, ret |-> "none"]
            /\ StartRequest("patch_location")
       ELSE /\ move' = [pc |-> "returned", attempts |-> tried, ret |-> MoveExcept(result)]
            /\ EndRequest
    /\ UNCHANGED <<refresh_interval, hostVars, parsed, hook, best, sessionVars, now, ticks, call,
                   coordVars, syncVars>>

\* lines 337-343: the attempt with {location: {id}} has ended
MoveFallbackDone ==
    /\ move.pc = "fallback"
    /\ pc = "done"
    /\ op = "patch_location"
    /\ move' = [pc |-> "returned",
                attempts |-> Append(move.attempts, Attempt("location", result)),
                ret |-> IF IsError(result) THEN MoveExcept(result) ELSE "true"]
    /\ EndRequest
    /\ UNCHANGED <<refresh_interval, hostVars, parsed, hook, best, sessionVars, now, ticks, call,
                   coordVars, syncVars>>

\* ------------------------------------------------------------------ webhook
\* line 104: the record handed to the listeners is the whole `data` object
Item(req) == [id |-> req.id]
Send(signal, item) == [signal |-> signal, item |-> item]

\* (mutant) the wildcard channel is notified first
handle_item_updated_WildcardFirst(req) ==
    IF req.data \in {"null", "non_object"}
    THEN [raised |-> "AttributeError", sent |-> <<>>]
    ELSE IF req.data = "absent" \/ req.id \in {"absent", ""}
    THEN [raised |-> "none", sent |-> <<>>]
    ELSE [raised |-> "none",
          sent |-> <<Send("SIGNAL_ITEM_UPDATED", Item(req)),
                     Send("SIGNAL_ITEM_UPDATED_" \o req.id, Item(req))>>]

\* _handle_item_updated, lines 104-123: the channels notified, or what is raised
handle_item_updated(req) ==
    IF req.data \in {"null", "non_object"}
    THEN [raised |-> "AttributeError", sent |-> <<>>]
    ELSE IF req.data = "absent" \/ req.id \in {"absent", ""}
    THEN [raised |-> "none", sent |-> <<>>]
    ELSE [raised |-> "none",
          sent |-> <<Send("SIGNAL_ITEM_UPDATED_" \o req.id, Item(req)),
                     Send("SIGNAL_ITEM_UPDATED", Item(req))>>]

\* line 74: request.json() gives the value, raises JSONDecodeError for text
\* that is no JSON, and UnicodeDecodeError for bytes that are no text
RequestJson(req) ==
    CASE req.body = "undecodable" -> "UnicodeDecodeError"
      [] req.body = "not_json" -> "JSONDecodeError"
      [] OTHER -> "value"

\* line 70
IdMatches(req) == req.idOk

\* what the handler did, in order
Did(act, what) == [act |-> act, what |-> what]
Sends(sent) == [i \in 1..Len(sent) |-> Did("send", sent[i].signal)]
\* lines 91-94: async_request_refresh on each registered coordinator
Refreshes(n) == [i \in 1..n |-> Did("refresh", Coordinators[i])]

\* post, lines 68-100: the status answered ("raise" when the exception leaves
\* post), the channels notified, whether a refresh was requested, and the
\* notifications and refresh requests in the order they were made
post(req) ==
    LET nothing == [sent |-> <<>>, refreshed |-> FALSE, did |-> <<>>] IN
    IF ~IdMatches(req) THEN [status |-> "404"] @@ nothing
    ELSE LET j == RequestJson(req) IN
    IF j = "JSONDecodeError" THEN [status |-> "400"] @@ nothing
    ELSE IF j # "value" THEN [status |-> "raise"] @@ nothing
    ELSE IF req.body = "non_object" THEN [status |-> "500"] @@ nothing
    ELSE LET h == IF req.type = "item.updated" THEN handle_item_updated(req)
                  ELSE [raised |-> "none", sent |-> <<>>] IN
    IF h.raised # "none"
    THEN [status |-> "500", sent |-> h.sent, refreshed |-> FALSE, did |-> Sends(h.sent)]
    ELSE [status |-> "200", sent |-> h.sent, refreshed |-> req.coordinators > 0,
          did |-> Sends(h.sent) \o Refreshes(req.coordinators)]

\* a POST arrives and is answered
WebhookPost ==
    /\ \E req \in HookPosts :
         LET a == post(req) IN
         hook' = [req |-> req, status |-> a.status, sent |-> a.sent,
                  refreshed |-> a.refreshed, did |-> a.did]
    /\ UNCHANGED <<refresh_interval, hostVars, move, parsed, best, sessionVars, now, ticks, requestVars, call,
                   coordVars, syncVars>>

\* ----------------------------------------------------------- sync_locations
\* (mutant) the handler of sync_locations raises again what it caught
SyncExceptReraises(exc) == exc

\* lines 251-254: whatever is raised inside sync_locations is logged, and the
\* function returns
SyncExcept(exc) == "none"

\* the run met a failure: the server's locations could not be fetched, a
\* location could not be created, or something raised
SyncFailed(r) == r.fetch = "failed" \/ r.createFailed \/ r.raised # "none"

\* how a finished run is remembered
RunSummary(r) ==
    IF r.raised # "none" \/ r.createFailed THEN "failed"
    ELSE IF r.fetch = "failed" THEN "fetch_failed"
    ELSE "ok"

\* lines 229-233: the host's areas are listed (which may raise: the sync ends,
\* line 251) and the server's locations are requested
SyncBegin ==
    /\ spc = "begin"
    /\ pc = "idle"
    /\ \/ /\ spc' = "locations"
          /\ StartRequest("sync_get_locations")
          /\ srun' = [NoRun EXCEPT !.before = srvLocs]
       \/ /\ spc' = "end"
          /\ UNCHANGED requestVars
          /\ srun' = [NoRun EXCEPT !.before = srvLocs, !.raised = "Exception",
                                   !.out = SyncExcept("Exception")]
    /\ todo' = {}
    /\ created' = <<>>
    /\ UNCHANGED <<refresh_interval, hostVars, sideVars, sessionVars, now, ticks, call, coordVars,
                   areas, srvLocs, creating, prevRun>>

\* lines 233-241: the names missing on the server
SyncGotLocations ==
    /\ spc = "locations"
    /\ pc = "done"
    /\ op = "sync_get_locations"
    /\ LET homebox_location_names == Range(get_locations(result, body))
           missing_locations == areas \ homebox_location_names
       IN /\ todo' = missing_locations
          /\ spc' = IF missing_locations = {} THEN "end" ELSE "create"
    /\ srun' = [srun EXCEPT !.fetch = IF IsError(result) THEN "failed" ELSE "ok"]
    /\ EndRequest
    /\ UNCHANGED <<refresh_interval, hostVars, sideVars, sessionVars, now, ticks, call, coordVars,
                   areas, srvLocs, creating, created, prevRun>>

\* lines 246-247 and create_location, lines 260-262: the next missing name
SyncCreate ==
    /\ spc = "create"
    /\ pc = "idle"
    /\ \E name \in todo :
         /\ creating' = name
         /\ created' = Append(created, name)
    /\ StartRequest("create_location")
    /\ UNCHANGED <<refresh_interval, hostVars, sideVars, sessionVars, now, ticks, call, coordVars,
                   areas, srvLocs, spc, todo, srun, prevRun>>

\* create_location, lines 263-267: its outcome is not looked at by the loop
SyncCreated ==
    /\ spc = "create"
    /\ pc = "done"
    /\ op = "create_location"
    /\ todo' = todo \ {creating}
    /\ spc' = IF todo' = {} THEN "end" ELSE "create"
    /\ creating' = ""
    /\ srun' = [srun EXCEPT !.createFailed = srun.createFailed \/ IsError(result)]
    /\ EndRequest
    /\ UNCHANGED <<refresh_interval, hostVars, sideVars, sessionVars, now, ticks, call, coordVars,
                   areas, srvLocs, created, prevRun>>

\* handle_sync_locations, lines 99-103: the service call runs the sync
ServiceSync ==
    /\ cpc = "idle"
    /\ spc = "idle"
    /\ pc = "idle"
    /\ call.op = "none"
    /\ spc' = "begin"
    /\ UNCHANGED <<refresh_interval, hostVars, sideVars, sessionVars, now, ticks, requestVars, call, coordVars,
                   areas, srvLocs, todo, creating, created, srun, prevRun>>

\* line 103: sync_locations has returned to the service call
ServiceSynced ==
    /\ cpc = "idle"
    /\ spc = "end"
    /\ spc' = "idle"
    /\ todo' = {}
    /\ created' = <<>>
    /\ srun' = NoRun
    /\ prevRun' = RunSummary(srun)
    /\ UNCHANGED <<refresh_interval, hostVars, sideVars, sessionVars, now, ticks, requestVars, call, coordVars,
                   areas, srvLocs, creating>>

\* ------------------------------------------------------ _async_update_data
\* (mutant) the sync is due from 24 hours on
SyncDueAtInterval(last, cur) ==
    last.kind = "none" \/ cur.at - last.at >= SyncIntervalMinutes

\* lines 288-289
SyncDue(last, cur) ==
    last.kind = "none" \/ cur.at - last.at > SyncIntervalMinutes

\* lines 313-318: the failure kinds the pass converts
PassFailure(exc) ==
    IF exc = "AuthError" THEN "ConfigEntryAuthFailed"
    ELSE IF exc = "ApiError" THEN "UpdateFailed"
    ELSE exc

\* (mutant) the pass goes on whatever the token check returned
PassProceedsAlways(ret) == TRUE

\* line 283: the pass goes on when the token check returned true
PassProceeds(ret) == ret = "true"

\* lines 283-284: the token check of a pass
PassTokenCheck ==
    /\ cpc = "idle"
    /\ spc = "idle"
    /\ pc = "idle"
    /\ call.op = "none"
    /\ \E resp \in ServerLogins :
         LET e == ensure_token_valid(Session, resp, now, refresh_interval) IN
         /\ SetSession(e.sess)
         /\ gate' = [NoGate EXCEPT !.check = e.ret]
         /\ IF PassProceeds(e.ret)
            THEN /\ cpc' = "gate"
                 /\ passResult' = "none"
            ELSE /\ cpc' = "idle"
                 /\ passResult' = PassFailure(IF e.ret = "false" THEN "UpdateFailed" ELSE e.ret)
    /\ fetched' = NoFetch
    /\ snapshot' = NoSnapshot
    /\ UNCHANGED <<refresh_interval, hostVars, sideVars, now, ticks, requestVars, call, last_sync_time,
                   current_time, syncs, syncVars>>

\* lines 287-291: the daily gate
PassGate ==
    /\ cpc = "gate"
    /\ current_time' = Naive(now)
    /\ gate' = [check |-> gate.check, passed |-> TRUE, t |-> now, prev |-> last_sync_time,
                 sync |-> SyncDue(last_sync_time, Naive(now))]
    /\ IF SyncDue(last_sync_time, Naive(now))
       THEN cpc' = "sync" /\ spc' = "begin" /\ syncs' = Append(syncs, now)
       ELSE cpc' = "items" /\ spc' = spc /\ syncs' = syncs
    /\ UNCHANGED <<refresh_interval, hostVars, sideVars, sessionVars, now, ticks, requestVars, call,
                   last_sync_time, passResult, snapshot, fetched,
                   areas, srvLocs, todo, creating, created, srun, prevRun>>

\* lines 291-292: sync_locations has returned (or, had it raised, the pass
\* would end with that failure)
PassSynced ==
    /\ cpc = "sync"
    /\ spc = "end"
    /\ IF srun.out = "none"
       THEN /\ last_sync_time' = current_time
            /\ cpc' = "items"
            /\ passResult' = passResult
       ELSE /\ last_sync_time' = last_sync_time
            /\ cpc' = "idle"
            /\ passResult' = PassFailure(srun.out)
    /\ spc' = "idle"
    /\ todo' = {}
    /\ created' = <<>>
    /\ srun' = NoRun
    /\ prevRun' = RunSummary(srun)
    /\ UNCHANGED <<refresh_interval, hostVars, sideVars, sessionVars, now, ticks, requestVars, call,
                   current_time, gate, syncs, snapshot, fetched,
                   areas, srvLocs, creating>>

\* line 304
PassFetchItems ==
    /\ cpc = "items"
    /\ pc = "idle"
    /\ StartRequest("get_items")
    /\ cpc' = "items_wait"
    /\ UNCHANGED <<refresh_interval, hostVars, sideVars, sessionVars, now, ticks, call, last_sync_time,
                   current_time, gate, syncs, passResult, snapshot, fetched, syncVars>>

\* lines 304-305
PassFetchLocations ==
    /\ cpc = "items_wait"
    /\ pc = "done"
    /\ op = "get_items"
    /\ snapshot' = [snapshot EXCEPT !.items = get_items(result, body)]
    /\ fetched' = [fetched EXCEPT !.items = IF IsError(result) THEN "failed" ELSE "ok"]
    /\ StartRequest("get_locations")
    /\ cpc' = "locations_wait"
    /\ UNCHANGED <<refresh_interval, hostVars, sideVars, sessionVars, now, ticks, call, last_sync_time,
                   current_time, gate, syncs, passResult, syncVars>>

\* lines 305-311
PassReturn ==
    /\ cpc = "locations_wait"
    /\ pc = "done"
    /\ op = "get_locations"
    /\ snapshot' = [snapshot EXCEPT !.locations = get_locations(result, body),
                                    !.last_update = Naive(now)]
    /\ fetched' = [fetched EXCEPT !.locations = IF IsError(result) THEN "failed" ELSE "ok"]
    /\ passResult' = "snapshot"
    /\ EndRequest
    /\ cpc' = "idle"
    /\ UNCHANGED <<refresh_interval, hostVars, sideVars, sessionVars, now, ticks, call, last_sync_time,
                   current_time, gate, syncs, syncVars>>

\* ------------------------------------------------------------------ sensor
\* native_value, sensor.py lines 100-121: the name in the nested location of
\* the item the entity holds, else the name of its location_id among the
\* snapshot's locations, else "Unknown"
native_value(item, data) ==
    IF item.location # "none" THEN item.location
    ELSE IF item.location_id # "none" /\ data.present
    THEN IF item.location_id \in data.locations THEN LocationName(item.location_id)
         ELSE "Unknown"
    ELSE "Unknown"

\* dict.update, line 207: the payload's keys replace the item's
Updated(item, payload) ==
    [location |-> IF payload.location = "keep" THEN item.location ELSE payload.location,
     location_id |-> IF payload.location_id = "keep" THEN item.location_id
                     ELSE payload.location_id]

\* sensor.py lines 42-60 and 67-72: the entity is created around an item that
\* get_items returned at the platform's setup, after the first refresh
SensorSetup ==
    /\ sensor.last = "none"
    /\ coordinator_data.present
    /\ \E it \in ItemRecords : sensor' = [item |-> it, last |-> "setup"]
    /\ UNCHANGED <<refresh_interval, sideVars, sessionVars, now, ticks, requestVars, call, coordVars, syncVars, coordinator_data, entries, label_used,
                   entry_webhook_id, views, notifiers, setups, last_setup>>

\* __init__.py lines 304-311: a pass returns a snapshot, which becomes
\* coordinator.data; the entity writes its state again
Publish ==
    /\ \E d \in Snapshots : coordinator_data' = d
    /\ sensor' = IF sensor.last = "none" THEN sensor ELSE [sensor EXCEPT !.last = "publish"]
    /\ UNCHANGED <<refresh_interval, sideVars, sessionVars, now, ticks, requestVars, call, coordVars, syncVars, entries, label_used,
                   entry_webhook_id, views, notifiers, setups, last_setup>>

\* _handle_item_update, sensor.py lines 203-209: the per-id signal of a webhook
ItemUpdateSignal ==
    /\ sensor.last # "none"
    /\ \E payload \in UpdatePayloads :
         sensor' = [item |-> Updated(sensor.item, payload), last |-> "signal"]
    /\ UNCHANGED <<refresh_interval, sideVars, sessionVars, now, ticks, requestVars, call, coordVars, syncVars, coordinator_data, entries, label_used,
                   entry_webhook_id, views, notifiers, setups, last_setup>>

\* _service_change_location, sensor.py lines 211-224: when the update
\* succeeded the item's location_id is set and a refresh is requested, which
\* may or may not have published by the time the call returns
ServiceChangeLocation ==
    /\ sensor.last # "none"
    /\ \E location_id \in LocationIds, success \in BOOLEAN, refreshed \in BOOLEAN :
         IF ~success THEN UNCHANGED <<sensor, coordinator_data>>
         ELSE LET item == [sensor.item EXCEPT !.location_id = location_id] IN
              IF refreshed
              THEN /\ coordinator_data' \in Snapshots
                   /\ sensor' = [item |-> item, last |-> "publish"]
              ELSE /\ coordinator_data' = coordinator_data
                   /\ sensor' = [item |-> item, last |-> "service"]
    /\ UNCHANGED <<refresh_interval, sideVars, sessionVars, now, ticks, requestVars, call, coordVars, syncVars, entries, label_used,
                   entry_webhook_id, views, notifiers, setups, last_setup>>

\* --------------------------------------------------- the items fetch's label
\* config_flow.py lines 81-82 and 95: an entry is created; its data has the
\* label key only when a label was entered
AddEntry ==
    /\ Len(entries) < MaxEntries
    /\ \E label \in Labels : entries' = Append(entries, label)
    /\ label_used' = Append(label_used, "unfetched")
    /\ UNCHANGED <<refresh_interval, sideVars, sessionVars, now, ticks, requestVars, call, coordVars, syncVars, sensor, coordinator_data,
                   entry_webhook_id, views, notifiers, setups, last_setup>>

RECURSIVE asset_label(_)
\* __init__.py lines 296-301: the label of the first entry that has one
asset_label(es) ==
    IF es = <<>> THEN "none"
    ELSE IF Head(es) # "none" THEN Head(es)
    ELSE asset_label(Tail(es))

\* __init__.py line 304: the items fetch of the coordinator of entry k
FetchItemsWithLabel ==
    /\ \E k \in 1..Len(entries) :
         label_used' = [label_used EXCEPT ![k] = asset_label(entries)]
    /\ UNCHANGED <<refresh_interval, sideVars, sessionVars, now, ticks, requestVars, call, coordVars, syncVars, sensor, coordinator_data, entries,
                   entry_webhook_id, views, notifiers, setups, last_setup>>

\* ------------------------------------------------------------ webhook setup
\* webhook.py lines 21-25: the id the view is registered with
ViewId(webhook_id, generated) == IF webhook_id = "None" THEN generated ELSE webhook_id

\* __init__.py lines 68-86 with async_setup_webhook: entry.data.get gives
\* None for a missing key; the view is registered; on a successful
\* registration with the server the local webhook_id is stored when the
\* entry has no such key yet
SetupWebhook ==
    /\ setups < MaxSetups
    /\ setups' = setups + 1
    /\ \E external_url \in BOOLEAN, generated \in WebhookIds, r \in Errors \cup {"json", "text"} :
         IF ~external_url
         THEN /\ UNCHANGED <<entry_webhook_id, views, notifiers>>
              /\ last_setup' = NoSetup
         ELSE LET webhook_id == IF entry_webhook_id = "absent" THEN "None" ELSE entry_webhook_id
                  id == ViewId(webhook_id, generated)
                  ok == register_webhook(r) = "true"
              IN /\ views' = views \cup {id}
                 /\ notifiers' = IF ok THEN notifiers \cup {id} ELSE notifiers
                 /\ entry_webhook_id' = IF ok /\ entry_webhook_id = "absent" THEN webhook_id
                                         ELSE entry_webhook_id
                 /\ last_setup' = [done |-> TRUE, id |-> id, registered |-> ok]
    /\ UNCHANGED <<refresh_interval, sideVars, sessionVars, now, ticks, requestVars, call, coordVars, syncVars, sensor, coordinator_data,
                   entries, label_used>>

Next ==
    \/ Tick
    \/ Authenticate
    \/ EnsureTokenValid
    \/ Return
    \/ ApiStart
    \/ ApiEnsure
    \/ ApiSend
    \/ ApiReauth
    \/ ApiDone

Spec == Init /\ [][Next]_vars

\* the coordinator's refresh passes
NextCoord ==
    \/ Tick
    \/ PassTokenCheck
    \/ PassGate
    \/ SyncBegin
    \/ SyncGotLocations
    \/ SyncCreate
    \/ SyncCreated
    \/ PassSynced
    \/ PassFetchItems
    \/ PassFetchLocations
    \/ PassReturn
    \/ ApiEnsure
    \/ ApiSend
    \/ ApiReauth

SpecCoord == Init /\ [][NextCoord]_vars

\* runs of sync_locations started by the service call
NextSync ==
    \/ Tick
    \/ ServiceSync
    \/ SyncBegin
    \/ SyncGotLocations
    \/ SyncCreate
    \/ SyncCreated
    \/ ServiceSynced
    \/ ApiEnsure
    \/ ApiSend
    \/ ApiReauth

SpecSync == Init /\ [][NextSync]_vars

\* the service call that moves an item
NextMove ==
    \/ Tick
    \/ MoveStart
    \/ MovePrimaryDone
    \/ MoveFallbackDone
    \/ ApiEnsure
    \/ ApiSend
    \/ ApiReauth

SpecMove == Init /\ [][NextMove]_vars

\* everything that runs on one client's session: direct logins and token
\* checks, and the operations built on api_request
NextFrame ==
    \/ Tick
    \/ AuthenticateOrNoToken
    \/ EnsureTokenValid
    \/ Return
    \/ MoveStart
    \/ MovePrimaryDone
    \/ MoveFallbackDone
    \/ ApiEnsure
    \/ ApiSend
    \/ ApiReauth

SpecFrame == Init /\ [][NextFrame]_vars

\* a sensor entity, the snapshots published and the updates signalled
NextSensor == SensorSetup \/ Publish \/ ItemUpdateSignal \/ ServiceChangeLocation

SpecSensor == Init /\ [][NextSensor]_vars

\* several configuration entries and their coordinators' items fetches
NextLabel == AddEntry \/ FetchItemsWithLabel

SpecLabel == Init /\ [][NextLabel]_vars

\* repeated setups of one configuration entry
SpecWebhookSetup == Init /\ [][SetupWebhook]_vars

\* the best-effort operations, each called directly
NextBestEffort ==
    \/ Tick
    \/ BestEffortStart
    \/ BestEffortDone
    \/ ApiEnsure
    \/ ApiSend
    \/ ApiReauth

SpecBestEffort == Init /\ [][NextBestEffort]_vars

\* the two list operations against every response
NextParse == ParseItems \/ ParseLocations \/ NormalizeItems \/ NormalizeLocations

SpecParse == Init /\ [][NextParse]_vars

\* the webhook endpoint
NextWebhook == WebhookPost

SpecWebhook == Init /\ [][NextWebhook]_vars

\* operations that share one client: refresh passes with their scheduled
\* location sync, the item move, and logins of other operations that arrive
\* while a request is in flight
NextShared ==
    \/ PassTokenCheck
    \/ PassGate
    \/ PassSynced
    \/ PassFetchItems
    \/ PassFetchLocations
    \/ PassReturn
    \/ SyncBegin
    \/ SyncGotLocations
    \/ SyncCreate
    \/ SyncCreated
    \/ MoveStart
    \/ MovePrimaryDone
    \/ MoveFallbackDone
    \/ ApiEnsure
    \/ ApiSend
    \/ ApiReauth
    \/ ConcurrentLogin

SpecShared == Init /\ [][NextShared]_vars

\* the session alone, against every shape of login response
NextLogin == Tick \/ AuthenticateAnyShape \/ Return

SpecLogin == Init /\ [][NextLogin]_vars

\* ===================================================================== claims
IsTarget(e) == e.ev = "target"
IsReauth(e) == e.ev = "login_reauth"
IsLogin(e) == e.ev \in {"login_reauth", "login_ensure"}
Targets == SelectSeq(log, IsTarget)
Reauths == SelectSeq(log, IsReauth)
Success == {"ok_json", "ok_text"}
\* position of the first call to the target endpoint (0: none)
FirstTarget == IF Targets = <<>> THEN 0
               ELSE CHOOSE i \in 1..Len(log) : IsTarget(log[i]) /\ \A j \in 1..(i - 1) : ~IsTarget(log[j])
LoginsAfter(i) == {j \in (i + 1)..Len(log) : IsLogin(log[j])}

\* the server behaviour C1 is about: the first call to the target answers 401,
\* every login after it succeeds, every later call to the target succeeds
C1_Scenario ==
    /\ pc = "done"
    /\ FirstTarget > 0
    /\ log[FirstTarget].res = "401"
    /\ \A j \in LoginsAfter(FirstTarget) : log[j].res = "true"
    /\ \A j \in (FirstTarget + 1)..Len(log) : IsTarget(log[j]) => log[j].res \in Success

\* C1: after a 401, a successful login and a successful retry, api_request
\* returns the response having made exactly two calls to the target and exactly
\* one login after the 401, the retry carrying the refreshed token.
C1_RetryOnce ==
    C1_Scenario =>
        /\ result \in {"json", "text"}
        /\ Len(Targets) = 2
        /\ Cardinality(LoginsAfter(FirstTarget)) = 1
        /\ Len(Reauths) = 1
        /\ Targets[2].tok = Reauths[1].tok

\* C2: when the re-authentication after a 401 fails, api_request fails with
\* AuthError and calls the target endpoint no more.
C2_ReauthFailureIsAuthError ==
    \A i \in 1..Len(log) :
        (pc = "done" /\ IsReauth(log[i]) /\ log[i].res = "false") =>
            /\ result = "AuthError"
            /\ \A j \in (i + 1)..Len(log) : ~IsTarget(log[j])

\* C3: one api_request makes at most two calls to the target endpoint and at
\* most one re-authentication triggered by a 401.
C3_BoundedRetry == Len(Targets) <= 2 /\ Len(Reauths) <= 1

\* the session in which ensure_token_valid answers without a login
C4_Fresh(s, t) ==
    /\ s.authenticated
    /\ ~Falsy(s.auth_token)
    /\ s.token_expiry.kind # "none"
    /\ t < s.token_expiry.at - SafetyMarginMinutes

\* C4: ensure_token_valid returns true without a login when the session is
\* authenticated, holds a token and now is more than five minutes before the
\* expiry; in every other state it makes exactly one authenticate() call and
\* returns its result.
C4_EnsureTokenValid ==
    call.op = "ensure_token_valid" =>
        IF C4_Fresh(call.pre, now)
        THEN call.ret = "true" /\ call.logins = 0
        ELSE call.logins = 1 /\ call.ret = call.inner

\* the token field authenticate() reads: the top-level one when present, else
\* the one under data
C5_TokenRead(b) ==
    IF b.token # "absent" THEN b.token
    ELSE IF b.data.kind = "obj" THEN b.data.token ELSE "absent"
\* the expiry can be read: the field read (top level when present, else under
\* data) is missing or parses, and data is not null when it is looked into
C5_ExpiryReadable(b) ==
    IF b.expires.kind # "absent" THEN b.expires.kind # "bad"
    ELSE /\ b.data.kind # "null"
         /\ b.data.kind = "obj" => b.data.expires.kind # "bad"
C5_Stored(tok) ==
    /\ auth_token = tok
    /\ authenticated
    /\ last_refresh = Naive(now)
    /\ call.ret = "true"

C6_Failing(r) ==
    \/ r.fail # "none"
    \/ C5_TokenRead(r.body) \notin Tokens
    \/ ~C5_ExpiryReadable(r.body)

\* C6: authenticate() never raises; on any transport failure, non-success
\* status, malformed response or missing/empty token it returns false and
\* leaves authenticated = false, whatever the session was before.
C6_AuthenticateFailsClosed ==
    call.op = "authenticate" =>
        /\ call.ret \in {"true", "false"}
        /\ C6_Failing(call.resp) => (call.ret = "false" /\ ~authenticated)

C6_Witness ==
    /\ call.op = "authenticate"
    /\ call.pre.authenticated
    /\ call.resp.fail = "none"
    /\ call.resp.body.token \in Tokens
    /\ call.resp.body.expires.kind = "bad"
    /\ call.ret = "false"
    /\ ~authenticated

\* C7: api_request calls ensure_token_valid before anything else; when that
\* returns false the request fails with AuthError and no call to the target
\* endpoint is made.  Stated for each invocation (frame) of api_request: the
\* frame's token check precedes its call to the target, a frame whose check
\* returned false raises AuthError at once and calls the target never, and a
\* request whose outermost check returned false ends in AuthError.
C7_TokenCheckFirst ==
    /\ \A i \in 1..Len(log) :
         IsTarget(log[i]) =>
            \E j \in 1..(i - 1) : log[j].ev = "ensure" /\ log[j].d = log[i].d
    /\ \A i \in 1..Len(log) :
         (log[i].ev = "ensure" /\ log[i].res = "false") =>
            /\ i < Len(log)
            /\ log[i + 1] = Event("raise", log[i].d, "", "AuthError")
            /\ \A j \in 1..Len(log) : IsTarget(log[j]) => log[j].d # log[i].d
    /\ (pc = "done" /\ log # <<>> /\ log[Len(log)].d = 0 /\ Len(Targets) = 0
          /\ \E i \in 1..Len(log) : log[i].ev = "ensure" /\ log[i].res = "false")
         => result = "AuthError"

C7_Witness ==
    /\ pc = "done"
    /\ result = "AuthError"
    /\ Targets = <<>>
    /\ \E i \in 1..Len(log) : log[i].ev = "ensure" /\ log[i].res = "false" /\ log[i].d = 0

\* C8: when the token check of a refresh pass returns false, the pass fails
\* with ConfigEntryAuthFailed, not with UpdateFailed.
C8_TokenFailureIsAuthFailed ==
    (cpc = "idle" /\ gate.check = "false") => passResult = "ConfigEntryAuthFailed"

\* C9: a pass whose items or locations request failed ends in a typed failure
\* (UpdateFailed or ConfigEntryAuthFailed) and publishes no snapshot.
C9_FetchFailureSurfaces ==
    (cpc = "idle" /\ (fetched.items = "failed" \/ fetched.locations = "failed")) =>
        /\ passResult \in {"UpdateFailed", "ConfigEntryAuthFailed"}
        /\ passResult # "snapshot"

\* C10: the location sync runs in the first pass that passes the token check,
\* in no later pass within 24 hours of the recorded lastSyncTime, and again in
\* the first pass more than 24 hours after it; two passes within 24 hours run
\* it at most once between them.  The time of a pass is the current_time it
\* reads at line 287; lastSyncTime is the current_time of the latest pass that
\* ran the sync.
C10_DailySync ==
    /\ gate.passed =>
         /\ gate.sync <=> (gate.prev = Absent \/ gate.t - gate.prev.at > SyncIntervalMinutes)
         /\ syncs # <<>>
    /\ \A i, j \in 1..Len(syncs) : i < j => syncs[j] - syncs[i] > SyncIntervalMinutes
    /\ last_sync_time =
         IF cpc = "sync" THEN gate.prev
         ELSE IF syncs = <<>> THEN Absent
         ELSE Naive(syncs[Len(syncs)])

C10_Witness ==
    /\ cpc = "idle"
    /\ passResult = "snapshot"
    /\ gate.passed
    /\ ~gate.sync
    /\ gate.prev # Absent
    /\ gate.t = gate.prev.at + SyncIntervalMinutes

\* C11: lastSyncTime starts absent and changes only after a location sync that
\* succeeded; a pass whose sync failed (locations not fetched, a location not
\* created, or an exception inside the sync) leaves it as it was.
C11_SyncTimeOnlyAfterSuccess ==
    /\ syncs = <<>> => last_sync_time = Absent
    /\ (cpc = "items" /\ gate.sync /\ prevRun # "ok") => last_sync_time = gate.prev

\* C12: one run of sync_locations with host areas H and server locations S
\* calls create_location exactly once for each name of H \ S, for no name of
\* H \cap S, and removes no server location.
C12_CreatesExactlyMissing ==
    (spc = "end" /\ srun.raised = "none") =>
        /\ Range(created) = areas \ srun.before
        /\ Len(created) = Cardinality(areas \ srun.before)
        /\ srun.before \subseteq srvLocs

\* C13: a run of sync_locations that follows a run in which every
\* create_location call succeeded, with the same host areas, calls
\* create_location not at all.
C13_SecondRunCreatesNothing ==
    (cpc = "idle" /\ spc = "end" /\ srun.raised = "none"
       /\ prevRun \in {"ok", "fetch_failed"}) => created = <<>>

\* the steps of a pass under way
C14_PassStep ==
    \/ PassGate \/ SyncBegin \/ SyncGotLocations \/ SyncCreate \/ SyncCreated
    \/ PassSynced \/ PassFetchItems \/ PassFetchLocations \/ PassReturn
    \/ ApiEnsure \/ ApiSend \/ ApiReauth

\* C14: whatever fails inside sync_locations, it returns normally, the pass
\* goes on to fetch items and locations, and ends with a snapshot.
C14_SyncNeverAbortsPass ==
    /\ spc = "end" => srun.out = "none"
    /\ cpc # "idle" => ENABLED C14_PassStep
    /\ (cpc = "idle" /\ gate.passed /\ gate.sync) =>
          /\ passResult = "snapshot"
          /\ fetched.items # "none"
          /\ fetched.locations # "none"

C14_Witness ==
    /\ cpc = "idle"
    /\ gate.passed
    /\ gate.sync
    /\ prevRun = "failed"
    /\ passResult = "snapshot"

\* C15: when the PATCH with {location_id} fails with ApiError, exactly one
\* PATCH with {location: {id}} is attempted; update_item_location returns true
\* iff that one succeeds, and there is no third attempt.
C15_OneFallback ==
    /\ Len(move.attempts) <= 2
    /\ \A i \in 1..Len(move.attempts) :
          move.attempts[i].shape = IF i = 1 THEN "location_id" ELSE "location"
    /\ move.pc = "returned" =>
          /\ Len(move.attempts) >= 1
          /\ move.attempts[1].res = "ApiError" =>
                /\ Len(move.attempts) = 2
                /\ move.ret = "true" <=> move.attempts[2].res = "ok"

C15_Witness ==
    /\ move.pc = "returned"
    /\ Len(move.attempts) = 2
    /\ move.attempts[1].res = "ApiError"
    /\ move.attempts[2].res = "ok"
    /\ move.ret = "true"

\* C16: get_items returns the identical list L for the responses {"items": L},
\* {"data": L} and the bare list L, for every list L.
C16_SameListForThreeShapes ==
    (parsed.fn = "get_items" /\ parsed.r = "json"
       /\ parsed.shape \in {"bare", "items", "data"}) =>
        /\ parsed.raised = "none"
        /\ parsed.out = parsed.L

C16_Witness ==
    /\ parsed.fn = "get_items"
    /\ parsed.shape = "data"
    /\ Len(parsed.L) = MaxLen
    /\ parsed.out = parsed.L

\* C17: get_items and get_locations never raise; for an object with no list
\* field, a response that is neither list nor object, and any failure of the
\* request, they return the empty list.
C17_NeverRaiseEmptyList ==
    parsed.fn \in {"get_items", "get_locations"} =>
        /\ parsed.raised = "none"
        /\ (parsed.r \in Errors \cup {"text"} \/ parsed.shape \in {"unexpected", "scalar"})
              => parsed.out = <<>>

C17_Witness ==
    /\ parsed.fn = "get_locations"
    /\ parsed.r = "AuthError"
    /\ parsed.raised = "none"
    /\ parsed.out = <<>>

\* an item.updated payload that reached the handler and has no data.id
C18_NoDataId ==
    /\ hook.status # "none"
    /\ hook.req.idOk
    /\ hook.req.body = "object"
    /\ hook.req.type = "item.updated"
    /\ hook.req.data # "object" \/ hook.req.id \in {"absent", ""}

\* C18: an item.updated webhook with no data.id notifies no listener and
\* raises nothing: the request is answered 200.
C18_MissingIdIsNoOp ==
    C18_NoDataId => (hook.sent = <<>> /\ hook.status = "200")

\* C19: every POST is answered 404 (wrong id; nothing dispatched, no refresh),
\* 400 (body no valid JSON), 500 (handling raised) or 200 (otherwise).
C19_FourStatuses ==
    hook.status # "none" =>
        /\ hook.status \in {"404", "400", "500", "200"}
        /\ ~hook.req.idOk =>
              (hook.status = "404" /\ hook.sent = <<>> /\ ~hook.refreshed)
        /\ (hook.req.idOk /\ hook.req.body \in {"undecodable", "not_json"}) =>
              hook.status = "400"
        /\ hook.status = "404" => ~hook.req.idOk

C21_ExpiryInFuture ==
    (call.op = "authenticate" /\ call.ret = "true") =>
        /\ token_expiry.kind # "none"
        /\ token_expiry.at > now

\* C22: api_request ends with a response, AuthError or ApiError and with no
\* other kind of error, in every session authenticate() can leave behind.
C22_OnlyAuthOrApiError ==
    pc = "done" => result \in {"json", "text", "AuthError", "ApiError"}

\* C23: when the target endpoint answers with a non-success status other than
\* 401, api_request fails with ApiError; after that answer there is no login
\* and no further call to the target.
C23_ErrorStatusIsApiError ==
    \A i \in 1..Len(log) :
        (IsTarget(log[i]) /\ log[i].res = "http_error") =>
            /\ pc = "done"
            /\ result = "ApiError"
            /\ \A j \in (i + 1)..Len(log) :
                  log[j].ev = "raise" /\ log[j].res = "ApiError"

C23_Witness ==
    /\ pc = "done"
    /\ result = "ApiError"
    /\ Len(Targets) = 2
    /\ Targets[1].res = "401"
    /\ Targets[2].res = "http_error"
    /\ Len(Reauths) = 1

\* C24: when the target endpoint answers with a success status and a body
\* that is not valid JSON, api_request returns the raw text, whether the
\* response declares a JSON content type or another one.
C24_InvalidJsonReturnsText ==
    (pc = "done" /\ Targets # <<>>
       /\ Targets[Len(Targets)].res \in {"ok_text", "ok_badjson"}) => result = "text"

\* C26: create_location, register_webhook and list_webhooks never raise; when
\* the request fails the first two return false and list_webhooks returns the
\* empty list; the first two return true only when the request ended without
\* an error.
C26_BestEffortNeverRaises ==
    best.done =>
        /\ best.raised = "none"
        /\ best.fn \in {"create_location", "register_webhook"} =>
              /\ best.ret \in {"true", "false"}
              /\ IsError(best.r) => best.ret = "false"
              /\ best.ret = "true" => best.r \in {"json", "text"}
        /\ (best.fn = "list_webhooks" /\ IsError(best.r)) => best.out = <<>>

C26_Witness ==
    /\ best.done
    /\ best.fn = "create_location"
    /\ best.r = "TypeError"
    /\ best.raised = "none"
    /\ best.ret = "false"

\* the positions a pass may move between, in the order of lines 283-311
C27_Order ==
    { <<"idle", "gate">>, <<"gate", "sync">>, <<"gate", "items">>, <<"sync", "items">>,
      <<"items", "items_wait">>, <<"items_wait", "locations_wait">>,
      <<"locations_wait", "idle">> }

\* C27: every step of a pass follows the order token check, conditional
\* location sync, items fetch, locations fetch, snapshot; a pass whose token
\* check returned false stops there, with no sync started, no request made
\* and last_sync_time as it was; a pass that completes returns a snapshot
\* holding the items and the locations that its two fetches returned.
C27_PassOrder ==
    [][ /\ cpc' # cpc => <<cpc, cpc'>> \in C27_Order
        /\ (cpc = "idle" /\ gate'.check = "false" /\ gate' # gate) =>
              /\ cpc' = "idle"
              /\ spc' = "idle" /\ pc' = "idle"
              /\ syncs' = syncs
              /\ last_sync_time' = last_sync_time
              /\ passResult' # "snapshot"
        /\ (cpc # "sync" /\ cpc' # "sync") => (spc' = spc /\ created' = created)
        /\ (cpc \in {"idle", "gate", "sync"} /\ cpc' \in {"idle", "gate", "sync"}) =>
              (fetched' = NoFetch \/ fetched' = fetched)
        /\ (cpc = "items_wait" /\ cpc' = "locations_wait") =>
              /\ fetched.items = "none" /\ fetched'.items # "none"
              /\ snapshot'.items = get_items(result, body)
        /\ (cpc = "locations_wait" /\ cpc' = "idle") =>
              /\ fetched.locations = "none" /\ fetched'.locations # "none"
              /\ passResult' = "snapshot"
              /\ snapshot'.items = snapshot.items
              /\ snapshot'.locations = get_locations(result, body)
              /\ snapshot'.last_update = Naive(now)
        /\ passResult' = "snapshot" => (passResult = "snapshot" \/ cpc = "locations_wait")
      ]_vars

C27_Witness ==
    /\ cpc = "idle"
    /\ gate.check = "false"
    /\ passResult = "UpdateFailed"
    /\ last_sync_time # Absent
    /\ snapshot = NoSnapshot

\* C28: an item.updated webhook whose data.id is present (not empty) notifies
\* the per-id channel and then the wildcard channel, each once and with the
\* whole record, and after that requests a refresh on every registered
\* coordinator; item.created, item.deleted and unknown types notify no channel
\* and request the same refreshes.
C28_NotifyThenRefresh ==
    (hook.status # "none" /\ hook.req.idOk /\ hook.req.body = "object") =>
        LET req == hook.req
            refreshes == [i \in 1..req.coordinators |-> Did("refresh", Coordinators[i])]
        IN
        /\ (req.type = "item.updated" /\ req.data = "object" /\ req.id \notin {"absent", ""}) =>
              /\ hook.status = "200"
              /\ hook.sent = << [signal |-> "SIGNAL_ITEM_UPDATED_" \o req.id, item |-> [id |-> req.id]],
                                [signal |-> "SIGNAL_ITEM_UPDATED", item |-> [id |-> req.id]] >>
              /\ hook.did = << Did("send", "SIGNAL_ITEM_UPDATED_" \o req.id),
                               Did("send", "SIGNAL_ITEM_UPDATED") >> \o refreshes
        /\ req.type # "item.updated" =>
              /\ hook.status = "200"
              /\ hook.sent = <<>>
              /\ hook.did = refreshes

C28_Witness ==
    /\ hook.status = "200"
    /\ hook.req.type = "item.updated"
    /\ hook.req.id = "i2"
    /\ Len(hook.sent) = 2
    /\ Len(hook.did) = 2 + Len(Coordinators)
    /\ hook.did[3].act = "refresh"

\* the list-valued fields of an object, and the one the priority order names
C29_IsListAt(fs, k) == \E i \in 1..Len(fs) : fs[i].k = k /\ fs[i].isList
C29_At(fs, k) == fs[CHOOSE i \in 1..Len(fs) : fs[i].k = k].items
C29_ListPositions(fs) == {i \in 1..Len(fs) : fs[i].isList}
C29_Expected(fn, fs) ==
    IF fn = "get_items" /\ C29_IsListAt(fs, "items") THEN C29_At(fs, "items")
    ELSE IF C29_IsListAt(fs, "data") THEN C29_At(fs, "data")
    ELSE IF C29_ListPositions(fs) # {}
    THEN fs[CHOOSE i \in C29_ListPositions(fs) : \A j \in C29_ListPositions(fs) : i <= j].items
    ELSE <<>>

\* C29: for a JSON object get_items returns the list under `items` if that
\* field is a list, else the list under `data` if that is a list, else the
\* first list-valued field in field order, else the empty list; get_locations
\* does the same without the `items` step; a named field that is no list is
\* passed over.
C29_PriorityOrder ==
    (parsed.fn \in {"get_items", "get_locations"} /\ parsed.r = "json" /\ parsed.b.t = "obj") =>
        parsed.out = C29_Expected(parsed.fn, parsed.b.fields)

C29_Witness ==
    /\ parsed.fn = "get_items"
    /\ parsed.b = JObj(<<ListField("results", <<"i1">>), ScalarField("items"),
                         ListField("data", <<"i2">>)>>)
    /\ parsed.out = <<"i2">>

\* C30: update_item_location never raises and returns a boolean; when the
\* PATCH with {location_id} fails with AuthError no second PATCH is attempted
\* and the result is false; when the PATCH with {location: {id}} fails, with
\* whatever error, the result is false.
C30_MoveNeverRaises ==
    move.pc = "returned" =>
        /\ move.ret \in {"true", "false"}
        /\ move.attempts[1].res = "AuthError" =>
              (Len(move.attempts) = 1 /\ move.ret = "false")
        /\ (Len(move.attempts) = 2 /\ move.attempts[2].res # "ok") => move.ret = "false"

C30_Witness ==
    /\ move.pc = "returned"
    /\ Len(move.attempts) = 1
    /\ move.attempts[1].res = "AuthError"
    /\ move.ret = "false"

\* C32: an ensure_token_valid() called right after a successful authenticate()
\* whose response supplied no expiry returns true without a login, for every
\* permitted refresh interval.
C32_FreshTokenIsValid ==
    (call.op = "ensure_token_valid"
       /\ call.pre.authenticated
       /\ ~Falsy(call.pre.auth_token)
       /\ call.pre.last_refresh = Naive(now)
       /\ call.pre.token_expiry = Naive(now + refresh_interval)) =>
        (call.ret = "true" /\ call.logins = 0)

\* C36: sync_locations issues no create for a name the server holds at the
\* time of the sync, whatever fails during the sync.
C36_NoCreateForExisting ==
    spc \in {"create", "end"} => Range(created) \cap srun.before = {}

\* a step in which authenticate() runs: a direct call that logged in, the
\* token check of a request when the session is not fresh, or the login that
\* follows a 401
C31_LoginStep ==
    \/ call.op = "none" /\ call'.op # "none" /\ call'.logins = 1
    \/ pc = "ensure" /\ TokenCheck(Session, now) = "login"
    \/ pc = "reauth"
\* a login that found no token: no response, or a body with no token field at
\* the top level and none under data
C31_NoToken(resp) ==
    \/ resp.fail # "none"
    \/ /\ resp.body.token = "absent"
       /\ resp.body.data.kind # "obj" \/ resp.body.data.token = "absent"

C33_SnapshotLocation(data) ==
    IF data.item.location # "none" THEN data.item.location
    ELSE IF data.item.location_id \in data.locations THEN LocationName(data.item.location_id)
    ELSE "Unknown"

\* C33: once a pass has published a snapshot, the entity's state is the
\* item's location in that snapshot, with no webhook needed.
C33_StateFollowsSnapshot ==
    sensor.last = "publish" =>
        native_value(sensor.item, coordinator_data) = C33_SnapshotLocation(coordinator_data)

\* C34: the items fetch of each coordinator uses the label of its own
\* configuration entry, and no label when that entry has none.
C34_OwnLabel ==
    \A k \in 1..Len(entries) :
        label_used[k] # "unfetched" => label_used[k] = entries[k]

\* C35: once a webhook is registered with the server, the id stored in the
\* entry is the id in the registered URL and one the endpoint serves, and all
\* setups of the entry registered that one id.
C35_OneWebhookId ==
    notifiers # {} =>
        /\ entry_webhook_id \in WebhookIds
        /\ notifiers = {entry_webhook_id}
        /\ entry_webhook_id \in views
====
